---- MODULE Spec2Model ----
(***************************************************************************)
(* A model of src/vm.rs: the LC-3 style machine with a word-addressable    *)
(* memory, ten 16-bit registers, the instruction decoder (From<u16> for    *)
(* Opcode) and the two public operations Machine::load and Machine::step.  *)
(*                                                                         *)
(* Words are u16 values, kept as integers in 0..65535.  Memory is the      *)
(* array [u16; 65536]; it is represented by its non-zero cells (a function *)
(* whose domain is the set of addresses holding a non-zero word), so two   *)
(* memories are equal exactly when all 65536 cells agree.                  *)
(*                                                                         *)
(* A panic (unreachable!(), slice index out of range, integer overflow in  *)
(* a build with overflow checks) ends the call; the state at the moment of *)
(* the panic is kept and no further call is made on the machine.           *)
(***************************************************************************)
EXTENDS Integers, Sequences, FiniteSets

\* ------------------------------------------------------------------ bounds
MaxBlockLen == 2
MaxLoads == 2
MaxSteps == 3

\* The images a caller loads from, as words of the instruction encoding.
\* Bits 15-12 are the selector; the remaining fields are read per opcode.
\*   8705  = 0x2201  0010 001 000000001   selector 2, bits 11-9 = 1, low bits 1
\*   32768 = 0x8000  1000 000000000000    selector 8 (unused)
\*   4671  = 0x123F  0001 001 000 1 11111 selector 1, bits 11-9 = 1, bits 8-6 = 0,
\*                                        bit 5 = 1, bits 4-0 = 11111
\*   65535 = 0xFFFF  1111 111111111111    selector 15; the largest data word
\*   4672  = 0x1240  0001 001 001 0 00000 selector 1, bits 11-9 = 1, bits 8-6 = 1,
\*                                        bit 5 = 0, bits 2-0 = 0
\*   4735  = 0x127F  0001 001 001 1 11111 selector 1, bits 11-9 = 1, bits 8-6 = 1,
\*                                        bit 5 = 1, bits 4-0 = 11111
\*   12801 = 0x3201  0011 001 000000001   selector 3, bits 11-9 = 1, low bits 1
\*   8703  = 0x21FF  0010 000 111111111   selector 2, bits 11-9 = 0, bits 8-0 ones
\*   1026  = 0x0402  0000 010 000000010   selector 0, bits 11-9 = 010, low bits 2
\*   12800 = 0x3200  0011 001 000000000   selector 3, bits 11-9 = 1, low bits 0
\*   9726  = 0x25FE  0010 010 111111110   selector 2, bits 11-9 = 2,
\*                                        bits 8-0 = 111111110 (-2 as 9 bits)
Images ==
    {<<8705, 32768, 4671, 65535>>, <<4672, 4735, 12801, 8703>>,
     <<1026, 12800, 9726>>}

\* The origins a caller loads at: the reset PC, the word after it, the second
\* instruction slot and the last address of memory.
Offsets == {0, 1, 2, 65535}

\* --------------------------------------------------------------- constants
MEMORY_SIZE == 65536
REGISTER_COUNT == 10
REG_PC == 8
REG_COND == 9

Word == 0 .. (MEMORY_SIZE - 1)
RegisterIndex == 0 .. (REGISTER_COUNT - 1)

VARIABLES
    mem,              \* Machine.mem.ram, as its non-zero cells
    registers,        \* Machine.registers.registers
    overflow_checks,  \* whether the build panics on integer overflow
    result,           \* how the last call ended
    call,             \* the last call made on the machine and its arguments
    pre,              \* mem and registers as they were when the last call began
    instr,            \* the local `instr` of the last step (decoder input)
    opcode,           \* the local `opcode` of the last step (decoder output)
    nloads,           \* calls of load so far
    nsteps            \* calls of step so far

vars == <<mem, registers, overflow_checks, result, call, pre, instr, opcode,
          nloads, nsteps>>

\* ------------------------------------------------------------------ Memory
\* Memory::new
MemoryNew == <<>>

\* Index<u16> for Memory
MemoryIndex(ram, index) == IF index \in DOMAIN ram THEN ram[index] ELSE 0

\* IndexMut<u16> for Memory, followed by the assignment of value
MemoryIndexMut(ram, index, value) ==
    IF value = 0
    THEN [a \in (DOMAIN ram) \ {index} |-> ram[a]]
    ELSE [a \in (DOMAIN ram) \cup {index} |-> IF a = index THEN value ELSE ram[a]]

\* Memory::load, the bounds check of the slice ram[start..end]
LoadInBounds(block, offset) == offset + Len(block) <= MEMORY_SIZE

\* Memory::load with the destination slice one word too far
MemoryLoadShifted(ram, block, offset) ==
    LET start == offset + 1
        end == start + Len(block)
        keep == {a \in DOMAIN ram : a < start \/ a >= end}
        set == {a \in start .. (end - 1) : block[a - start + 1] # 0}
    IN [a \in keep \cup set |->
           IF a \in set THEN block[a - start + 1] ELSE ram[a]]

\* Memory::load, the copy_from_slice into ram[start..end]
MemoryLoad(ram, block, offset) ==
    LET start == offset
        end == start + Len(block)
        keep == {a \in DOMAIN ram : a < start \/ a >= end}
        set == {a \in start .. (end - 1) : block[a - start + 1] # 0}
    IN [a \in keep \cup set |->
           IF a \in set THEN block[a - start + 1] ELSE ram[a]]

\* ---------------------------------------------------------------- registers
\* Default for RegisterCluster with PC at the conventional user origin 0x3000
RegisterClusterDefaultAtOrigin ==
    [i \in RegisterIndex |-> IF i = REG_PC THEN 12288 ELSE 0]

\* Default for RegisterCluster
RegisterClusterDefault == [i \in RegisterIndex |-> 0]

\* ------------------------------------------------------------------ BitTool
use_immediate_mode(w) == (w \div 16) % 2 = 1

\* read_dr with the shift of 6 in place of 9
read_dr_shift6(w) == (w \div 64) % 8

\* read_dr with the mask 0x0f in place of 0x07
read_dr_mask4(w) == (w \div 512) % 16

read_dr(w) == (w \div 512) % 8

read_sr1(w) == (w \div 32) % 8

read_sr2(w) == w % 8

read_imme5(w) == w % 32

read_pc_offset9(w) == w % 128

\* ------------------------------------------------------------------ Opcode
NoOpcode == [tag |-> "none"]
Unreachable == [tag |-> "unreachable"]

\* From<u16> for Opcode with the arm of 0b0010 building a Store
OpcodeFromLoadAsStore(value) ==
    LET op == value \div 4096
    IN CASE op = 1 ->
              IF use_immediate_mode(value)
              THEN [tag |-> "AddImmediate", dr |-> read_dr(value),
                    sr1 |-> read_sr1(value), imm5 |-> read_imme5(value)]
              ELSE [tag |-> "Add", dr |-> read_dr(value),
                    sr1 |-> read_sr1(value), sr2 |-> read_sr2(value)]
         [] op \in {2, 3} ->
              [tag |-> "Store", sr |-> read_dr(value),
               pc_offset9 |-> read_pc_offset9(value)]
         [] OTHER -> Unreachable

\* From<u16> for Opcode; Unreachable stands for the panic of unreachable!()
OpcodeFrom(value) ==
    LET op == value \div 4096
    IN CASE op = 1 ->
              IF use_immediate_mode(value)
              THEN [tag |-> "AddImmediate", dr |-> read_dr(value),
                    sr1 |-> read_sr1(value), imm5 |-> read_imme5(value)]
              ELSE [tag |-> "Add", dr |-> read_dr(value),
                    sr1 |-> read_sr1(value), sr2 |-> read_sr2(value)]
         [] op = 2 ->
              [tag |-> "Load", dr |-> read_dr(value),
               pc_offfset9 |-> read_pc_offset9(value)]
         [] op = 3 ->
              [tag |-> "Store", sr |-> read_dr(value),
               pc_offset9 |-> read_pc_offset9(value)]
         [] OTHER -> Unreachable

\* ----------------------------------------------------------- u16 arithmetic
\* a + b on u16 overflows
Overflows(a, b) == a + b >= MEMORY_SIZE

\* a + b on u16 in a build without overflow checks
WrappingAdd(a, b) == (a + b) % MEMORY_SIZE

\* ----------------------------------------------------------------- Machine
Outcome(m, r, res, w, op) ==
    [mem |-> m, registers |-> r, result |-> res, instr |-> w, opcode |-> op]

\* The match of Machine::step on the decoded opcode; r already holds the
\* advanced PC.
Execute(m, r, chk, w, op) ==
    CASE op.tag = "Add" ->
           IF chk /\ Overflows(r[op.sr1], r[op.sr2])
           THEN Outcome(m, r, "panic_overflow", w, op)
           ELSE Outcome(m, [r EXCEPT ![op.dr] = WrappingAdd(r[op.sr1], r[op.sr2])],
                        "ok", w, op)
      [] op.tag = "AddImmediate" ->
           IF chk /\ Overflows(r[op.sr1], op.imm5)
           THEN Outcome(m, r, "panic_overflow", w, op)
           ELSE Outcome(m, [r EXCEPT ![op.dr] = WrappingAdd(r[op.sr1], op.imm5)],
                        "ok", w, op)
      [] op.tag = "Load" ->
           IF chk /\ Overflows(r[REG_PC], op.pc_offfset9)
           THEN Outcome(m, r, "panic_overflow", w, op)
           ELSE Outcome(m,
                        [r EXCEPT ![op.dr] =
                            MemoryIndex(m, WrappingAdd(r[REG_PC], op.pc_offfset9))],
                        "ok", w, op)
      [] op.tag = "Store" ->
           IF chk /\ Overflows(r[REG_PC], op.pc_offset9)
           THEN Outcome(m, r, "panic_overflow", w, op)
           ELSE Outcome(MemoryIndexMut(m, WrappingAdd(r[REG_PC], op.pc_offset9),
                                       r[op.sr]),
                        r, "ok", w, op)
      [] OTHER -> Outcome(m, r, "panic_unreachable", w, op)

\* Machine::step as a function of the state it is called in
StepOutcome(m, r, chk) ==
    LET w == MemoryIndex(m, r[REG_PC])
    IN IF chk /\ Overflows(r[REG_PC], 2)
       THEN Outcome(m, r, "panic_overflow", w, NoOpcode)
       ELSE LET r1 == [r EXCEPT ![REG_PC] = WrappingAdd(r[REG_PC], 2)]
                op == OpcodeFrom(w)
            IN Execute(m, r1, chk, w, op)

Panicked == result \in {"panic_overflow", "panic_unreachable", "panic_index"}

\* Machine::new
Init ==
    /\ mem = MemoryNew
    /\ registers = RegisterClusterDefault
    /\ overflow_checks \in BOOLEAN
    /\ result = "ok"
    /\ call = [op |-> "new", block |-> <<>>, offset |-> 0]
    /\ pre = [mem |-> MemoryNew, registers |-> RegisterClusterDefault]
    /\ instr = 0
    /\ opcode = NoOpcode
    /\ nloads = 0
    /\ nsteps = 0

\* The blocks a caller passes: every slice of an image, up to MaxBlockLen words.
Blocks ==
    UNION {{SubSeq(t[1], i, i + t[2] - 1) : i \in 1 .. (Len(t[1]) - t[2] + 1)} :
              t \in Images \X (0 .. MaxBlockLen)}

\* Machine::load
Load(block, offset) ==
    /\ ~Panicked
    /\ nloads < MaxLoads
    /\ nloads' = nloads + 1
    /\ call' = [op |-> "load", block |-> block, offset |-> offset]
    /\ pre' = [mem |-> mem, registers |-> registers]
    /\ IF LoadInBounds(block, offset)
       THEN /\ mem' = MemoryLoad(mem, block, offset)
            /\ result' = "ok"
       ELSE /\ mem' = mem
            /\ result' = "panic_index"
    /\ UNCHANGED <<registers, overflow_checks, instr, opcode, nsteps>>

\* Machine::step
Step ==
    /\ ~Panicked
    /\ nsteps < MaxSteps
    /\ nsteps' = nsteps + 1
    /\ call' = [op |-> "step", block |-> <<>>, offset |-> 0]
    /\ pre' = [mem |-> mem, registers |-> registers]
    /\ LET out == StepOutcome(mem, registers, overflow_checks)
       IN /\ mem' = out.mem
          /\ registers' = out.registers
          /\ result' = out.result
          /\ instr' = out.instr
          /\ opcode' = out.opcode
    /\ UNCHANGED <<overflow_checks, nloads>>

Next ==
    \/ \E block \in Blocks, offset \in Offsets : Load(block, offset)
    \/ Step

Spec == Init /\ [][Next]_vars

\* ------------------------------------------------- the decoder on its own
\* Every u16 as the argument of Opcode::from.
DecodeInit ==
    /\ mem = MemoryNew
    /\ registers = RegisterClusterDefault
    /\ overflow_checks \in BOOLEAN
    /\ result = "ok"
    /\ call = [op |-> "new", block |-> <<>>, offset |-> 0]
    /\ pre = [mem |-> MemoryNew, registers |-> RegisterClusterDefault]
    /\ instr \in Word
    /\ opcode = NoOpcode
    /\ nloads = 0
    /\ nsteps = 0

\* Opcode::from(instr)
Decode ==
    /\ call.op = "new"
    /\ call' = [op |-> "from", block |-> <<>>, offset |-> 0]
    /\ opcode' = OpcodeFrom(instr)
    /\ result' = IF OpcodeFrom(instr) = Unreachable THEN "panic_unreachable" ELSE "ok"
    /\ UNCHANGED <<mem, registers, overflow_checks, pre, instr, nloads, nsteps>>

DecodeSpec == DecodeInit /\ [][Decode]_vars

\* ------------------------------------------- one word at the reset PC
\* The machine after Machine::new() and load(&[w], 0), for every u16 w; step
\* then fetches, decodes and executes w.
StepInit ==
    \E w \in Word :
        /\ mem = MemoryLoad(MemoryNew, <<w>>, 0)
        /\ registers = RegisterClusterDefault
        /\ overflow_checks \in BOOLEAN
        /\ result = "ok"
        /\ call = [op |-> "load", block |-> <<w>>, offset |-> 0]
        /\ pre = [mem |-> MemoryNew, registers |-> RegisterClusterDefault]
        /\ instr = 0
        /\ opcode = NoOpcode
        /\ nloads = 1
        /\ nsteps = 0

StepSpec == StepInit /\ [][Step]_vars

TypeOK ==
    /\ \A a \in DOMAIN mem : a >= 0 /\ a < MEMORY_SIZE /\ mem[a] > 0 /\ mem[a] < MEMORY_SIZE
    /\ DOMAIN registers = RegisterIndex
    /\ \A i \in RegisterIndex : registers[i] >= 0 /\ registers[i] < MEMORY_SIZE
    /\ overflow_checks \in BOOLEAN
    /\ result \in {"ok", "panic_overflow", "panic_unreachable", "panic_index"}
    /\ instr >= 0 /\ instr < MEMORY_SIZE
    /\ nloads \in 0 .. MaxLoads
    /\ nsteps \in 0 .. MaxSteps

\* ------------------------------------------------------ the specification
\* The instruction format and the semantics the specification states, used
\* to state the properties below.

\* bits hi..lo of w
Field(w, hi, lo) == (w \div (2 ^ lo)) % (2 ^ (hi - lo + 1))

\* bits 15-12 of w
Selector(w) == Field(w, 15, 12)

\* the n-bit field x as a two's-complement number, widened to 16 bits
SignExtend(x, n) == IF x >= 2 ^ (n - 1) THEN x + MEMORY_SIZE - 2 ^ n ELSE x

\* the word the last step fetched
Fetched == MemoryIndex(pre.mem, pre.registers[REG_PC])

\* the address after the one the last step fetched from
NextPc == (pre.registers[REG_PC] + 1) % MEMORY_SIZE

\* PC-relative address of the fetched word: NextPc + sign_extend(bits 8-0)
PcRelative == (NextPc + SignExtend(Field(Fetched, 8, 0), 9)) % MEMORY_SIZE

Stepped == call.op = "step"
Loaded == call.op = "load"

\* C1: a step that fetches an Add, AddImmediate, Load or Store word leaves
\* PC = PC + 1 mod 2^16; so after n such steps from the reset PC of 0 the
\* machine has fetched addresses 0 .. n-1 and PC = n.
C1_PcAdvancesByOneWord ==
    /\ (Stepped /\ Selector(Fetched) \in {1, 2, 3}) =>
           registers[REG_PC] = NextPc
    /\ ~Panicked => registers[REG_PC] = nsteps

\* C2: Opcode::from returns an instruction for every 16-bit word: it never
\* panics.
C2_DecodeIsTotal ==
    call.op = "from" => (result = "ok" /\ opcode # Unreachable)

\* C3: a step that fetches a word with selector 1000 or 1101 reports
\* IllegalOpcode and leaves registers and memory as they were.
C3_IllegalOpcodeReported ==
    (Stepped /\ Selector(Fetched) \in {8, 13}) =>
        /\ result = "IllegalOpcode"
        /\ registers = pre.registers
        /\ mem = pre.mem

\* C4: a load with offset + len(block) > 65536 returns OutOfBoundsLoad to the
\* caller and changes neither memory nor registers.
C4_OutOfBoundsLoadReported ==
    (Loaded /\ call.offset + Len(call.block) > MEMORY_SIZE) =>
        /\ result = "OutOfBoundsLoad"
        /\ mem = pre.mem
        /\ registers = pre.registers

\* C5: a load with offset + len(block) <= 65536 succeeds, sets
\* memory[offset + i] = block[i] for every i, and leaves every other memory
\* cell and every register unchanged.  (Cells outside both domains are zero
\* before and after.)
C5_LoadWritesBlockOnly ==
    (Loaded /\ call.offset + Len(call.block) <= MEMORY_SIZE) =>
        /\ result = "ok"
        /\ \A i \in 1 .. Len(call.block) :
               MemoryIndex(mem, call.offset + i - 1) = call.block[i]
        /\ \A a \in (DOMAIN mem) \cup (DOMAIN pre.mem) :
               (a < call.offset \/ a >= call.offset + Len(call.block)) =>
                   MemoryIndex(mem, a) = MemoryIndex(pre.mem, a)
        /\ registers = pre.registers

\* C5 witness: after a step has moved PC, a load of two or more words has
\* overwritten a cell that held another word while a non-zero cell outside
\* the block stayed.
C5_Witness ==
    /\ Loaded
    /\ result = "ok"
    /\ Len(call.block) >= 2
    /\ registers[REG_PC] # 0
    /\ \E a \in DOMAIN pre.mem :
           /\ a >= call.offset
           /\ a < call.offset + Len(call.block)
           /\ MemoryIndex(mem, a) # pre.mem[a]
    /\ \E a \in DOMAIN pre.mem :
           a < call.offset \/ a >= call.offset + Len(call.block)

\* C6: no step fails on arithmetic overflow.
C6_OverflowNeverFails ==
    Stepped => result # "panic_overflow"

\* C7: a step that fetches a word with selector 0001 and bit 5 = 0 sets
\* R[bits 11-9] = (R[bits 8-6] + R[bits 2-0]) mod 2^16.
C7_AddRegisterMode ==
    (Stepped /\ Selector(Fetched) = 1 /\ Field(Fetched, 5, 5) = 0) =>
        registers[Field(Fetched, 11, 9)] =
            (pre.registers[Field(Fetched, 8, 6)]
                + pre.registers[Field(Fetched, 2, 0)]) % MEMORY_SIZE

\* C8: a step that fetches a word with selector 0001 and bit 5 = 1 sets
\* R[bits 11-9] = (R[bits 8-6] + sign_extend(bits 4-0)) mod 2^16.
C8_AddImmediateSignExtends ==
    (Stepped /\ Selector(Fetched) = 1 /\ Field(Fetched, 5, 5) = 1) =>
        registers[Field(Fetched, 11, 9)] =
            (pre.registers[Field(Fetched, 8, 6)]
                + SignExtend(Field(Fetched, 4, 0), 5)) % MEMORY_SIZE

\* C9: a step that fetches a word with selector 0010 sets R[bits 11-9] to the
\* memory word at (PC + 1 + sign_extend(bits 8-0)) mod 2^16.
C9_LoadPcRelative ==
    (Stepped /\ Selector(Fetched) = 2) =>
        registers[Field(Fetched, 11, 9)] = MemoryIndex(pre.mem, PcRelative)

\* C10: a step that fetches a word with selector 0011 writes R[bits 11-9] to
\* the memory word at (PC + 1 + sign_extend(bits 8-0)) mod 2^16 and changes
\* no other memory cell.
C10_StorePcRelative ==
    (Stepped /\ Selector(Fetched) = 3) =>
        mem = MemoryIndexMut(pre.mem, PcRelative,
                             pre.registers[Field(Fetched, 11, 9)])

\* C11: when a step that fetched a Store word (selector 0011) is followed by
\* a step that fetches a Load word (selector 0010), and both words name the
\* same effective address (address after the fetch + sign_extend(bits 8-0)),
\* the Load leaves in R[bits 11-9 of the Load] the value R[bits 11-9 of the
\* Store] held when the Store executed.
C11_StoreLoadRoundTrip ==
    [][(/\ Stepped
        /\ Selector(Fetched) = 3
        /\ call'.op = "step"
        /\ Selector(MemoryIndex(mem, registers[REG_PC])) = 2
        /\ PcRelative =
               (registers[REG_PC] + 1
                   + SignExtend(Field(MemoryIndex(mem, registers[REG_PC]), 8, 0), 9))
                   % MEMORY_SIZE)
       => registers'[Field(MemoryIndex(mem, registers[REG_PC]), 11, 9)] =
              pre.registers[Field(Fetched, 11, 9)]]_vars

\* The condition flags as the specification encodes them: one bit each, in
\* the order of the Branch mask (bits 11-9 = n z p): P = 1, Z = 2, N = 4.
CondFlags == {1, 2, 4}

\* the flag of the 16-bit value v read as a signed number
CondOf(v) == IF v = 0 THEN 2 ELSE IF v >= MEMORY_SIZE \div 2 THEN 4 ELSE 1

\* some flag is set in both the 3-bit mask and cond
MaskMatches(mask, cond) ==
    \E b \in CondFlags : (mask \div b) % 2 = 1 /\ (cond \div b) % 2 = 1

\* C12: after a step that fetched an Add, AddImmediate or Load word, COND is
\* the one flag of the value now in R[bits 11-9]: N if it is negative as a
\* signed 16-bit number, Z if zero, P if positive.
C12_CondFollowsResult ==
    (Stepped /\ result = "ok" /\ Selector(Fetched) \in {1, 2}) =>
        registers[REG_COND] = CondOf(registers[Field(Fetched, 11, 9)])

\* C13: a step that fetches a Branch word (selector 0000) returns normally
\* with PC = PC + 1 + sign_extend(bits 8-0) when a bit of its mask (bits
\* 11-9) matches the flag set in COND, and with PC = PC + 1 otherwise.
C13_BranchFromNextPc ==
    (Stepped /\ Selector(Fetched) = 0) =>
        /\ result = "ok"
        /\ registers[REG_PC] =
               IF MaskMatches(Field(Fetched, 11, 9), pre.registers[REG_COND])
               THEN PcRelative
               ELSE NextPc

\* C14: a step that fetches a Trap word (selector 1111) returns normally with
\* R7 = PC + 1 and PC = memory[bits 7-0].
C14_TrapSavesReturnAddress ==
    (Stepped /\ Selector(Fetched) = 15) =>
        /\ result = "ok"
        /\ registers[7] = NextPc
        /\ registers[REG_PC] = MemoryIndex(pre.mem, Field(Fetched, 7, 0))

\* the addresses of the trap vector table whose word the last call changed
TrapTableChanged ==
    {a \in (DOMAIN mem) \cup (DOMAIN pre.mem) :
        a < 256 /\ MemoryIndex(mem, a) # MemoryIndex(pre.mem, a)}

\* C15 as stated: no step changes a word of the trap vector table
\* (addresses 0..255).
C15_StepNeverWritesTrapTable ==
    Stepped => TrapTableChanged = {}

\* C15 amended: a step changes a word of the trap vector table only when it
\* fetched a Store word (selector 0011); it then changes one word of it, to
\* the value of R[bits 11-9].
C15_OnlyStoreWritesTrapTable ==
    (Stepped /\ TrapTableChanged # {}) =>
        /\ Selector(Fetched) = 3
        /\ Cardinality(TrapTableChanged) = 1
        /\ \A a \in TrapTableChanged :
               MemoryIndex(mem, a) = pre.registers[Field(Fetched, 11, 9)]

\* C15 witness: a Store has put a non-zero register into the trap vector
\* table.
C15_Witness ==
    /\ Stepped
    /\ result = "ok"
    /\ Selector(Fetched) = 3
    /\ pre.registers[Field(Fetched, 11, 9)] # 0
    /\ TrapTableChanged # {}

\* C16: a freshly constructed machine has all ten registers, PC and COND
\* included, and all 65536 memory words equal to zero.
C16_NewMachineIsZero ==
    call.op = "new" =>
        /\ \A i \in RegisterIndex : registers[i] = 0
        /\ \A a \in Word : MemoryIndex(mem, a) = 0

\* C16 witness: the machine as Machine::new returns it, before any call.
C16_Witness ==
    /\ call.op = "new"
    /\ nloads = 0
    /\ nsteps = 0
    /\ DOMAIN registers = RegisterIndex

\* the register numbers 0..7 of R0..R7
GeneralRegisters == 0 .. 7

\* C17: the register indices of every decoded instruction lie in 0..7, never
\* PC (8) or COND (9), and every memory index a step uses (the fetch address,
\* the address a Load reads, the addresses written) lies in 0..65535.
C17_IndicesInRange ==
    Stepped =>
        /\ opcode.tag \in {"Add", "AddImmediate", "Load"} =>
               opcode.dr \in GeneralRegisters
        /\ opcode.tag \in {"Add", "AddImmediate"} =>
               opcode.sr1 \in GeneralRegisters
        /\ opcode.tag = "Add" => opcode.sr2 \in GeneralRegisters
        /\ opcode.tag = "Store" => opcode.sr \in GeneralRegisters
        /\ pre.registers[REG_PC] >= 0 /\ pre.registers[REG_PC] < MEMORY_SIZE
        /\ \A i \in RegisterIndex : registers[i] >= 0 /\ registers[i] < MEMORY_SIZE
        /\ opcode.tag = "Load" =>
               LET index == WrappingAdd(registers[REG_PC], opcode.pc_offfset9)
               IN index >= 0 /\ index < MEMORY_SIZE
        /\ \A a \in DOMAIN mem : a >= 0 /\ a < MEMORY_SIZE

\* C17 witness: a step has decoded an Add whose three register fields are
\* all ones.
C17_Witness ==
    /\ Stepped
    /\ result = "ok"
    /\ opcode.tag = "Add"
    /\ opcode.dr = 7
    /\ opcode.sr1 = 7
    /\ opcode.sr2 = 7

\* C18: for every word with selector 0001 the decoder yields AddImmediate
\* exactly when bit 5 is 1 and Add exactly when bit 5 is 0, whatever bits 4-0
\* are.
C18_Bit5SelectsImmediate ==
    (call.op = "from" /\ Selector(instr) = 1) =>
        /\ opcode.tag = "AddImmediate" <=> Field(instr, 5, 5) = 1
        /\ opcode.tag = "Add" <=> Field(instr, 5, 5) = 0

\* C19: in every reachable state COND has exactly one of the flag bits N, Z,
\* P set.
C19_CondHasOneFlag ==
    registers[REG_COND] \in CondFlags

\* the addresses whose word the last call changed
MemoryChanged ==
    {a \in (DOMAIN mem) \cup (DOMAIN pre.mem) :
        MemoryIndex(mem, a) # MemoryIndex(pre.mem, a)}

\* C20: a step that fetched an Add, AddImmediate or Load word leaves memory
\* unchanged and changes no general register other than R[bits 11-9]; a step
\* that fetched a Store word leaves R0..R7 and COND unchanged and changes at
\* most one memory word.  (PC, and COND for the first three, may change.)
C20_StepFrame ==
    /\ (Stepped /\ Selector(Fetched) \in {1, 2}) =>
           /\ mem = pre.mem
           /\ \A i \in GeneralRegisters \ {Field(Fetched, 11, 9)} :
                  registers[i] = pre.registers[i]
    /\ (Stepped /\ Selector(Fetched) = 3) =>
           /\ \A i \in GeneralRegisters \cup {REG_COND} :
                  registers[i] = pre.registers[i]
           /\ Cardinality(MemoryChanged) <= 1

\* C20 witness: a Store has changed one memory word while other non-zero
\* words and a non-zero register stayed, and PC moved.
C20_Witness ==
    /\ Stepped
    /\ result = "ok"
    /\ Selector(Fetched) = 3
    /\ Cardinality(MemoryChanged) = 1
    /\ Cardinality((DOMAIN pre.mem) \ MemoryChanged) >= 2
    /\ \E i \in GeneralRegisters : registers[i] # 0
    /\ registers[REG_PC] # pre.registers[REG_PC]

====
